---- MODULE Spec2Model ----
(***************************************************************************)
(* Content reorganization scripts of WIPEOUT-REBORN, as a state machine    *)
(* over an external asset store (directories + asset registry).            *)
(*                                                                         *)
(*   quick_create_folders.py          create_folder_structure              *)
(*   reorganize_simple.py             SimpleReorganizer                    *)
(*   reorganize_unreal_content.py     ContentReorganizer                   *)
(*   cleanup_after_reorganization.py  ContentCleanup                       *)
(*                                                                         *)
(* Paths and names are TLA+ strings handled character by character, so     *)
(* substring tests, replace, lstrip and lower are computed as Python does. *)
(* Every mutating store call has one of three outcomes: it returns True    *)
(* ("ok"), returns False ("false") or raises ("raise").                    *)
(***************************************************************************)
EXTENDS Integers, Sequences, FiniteSets, TLC

VARIABLES
    script,     \* which entry point is being run
    pc,         \* the next step of that entry point
    dry_run,    \* the dry_run argument of the run
    run_no,     \* how many times the entry point has been started
    registry,   \* the store's asset records, in listing order
    dirs,       \* the store's existing directories
    steps,      \* the handlers executed in the current run, with their results
    past,       \* the steps of the earlier runs, oldest first
    faults      \* store calls so far that did not return True

vars == <<script, pc, dry_run, run_no, registry, dirs, steps, past, faults>>

-----------------------------------------------------------------------------
(* Bounds of the exploration *)

MaxAssets == 2      \* records drawn from the pool into the initial registry
MaxFaults == 1      \* store calls that do not return True
MaxRuns == 2        \* times the same entry point is started
MaxWords == 2       \* name tokens joined into a blueprint name
MaxFill == 11       \* most texture records put under /Game/Courses

-----------------------------------------------------------------------------
(* Python string operations *)

UpperAZ == "ABCDEFGHIJKLMNOPQRSTUVWXYZ"
LowerAZ == "abcdefghijklmnopqrstuvwxyz"

\* str.lower() on one character
LowerChar(c) ==
    IF \E i \in 1..Len(UpperAZ) : SubSeq(UpperAZ, i, i) = c
    THEN LET i == CHOOSE j \in 1..Len(UpperAZ) : SubSeq(UpperAZ, j, j) = c
         IN  SubSeq(LowerAZ, i, i)
    ELSE c

\* str.lower()
RECURSIVE Lower(_)
Lower(s) ==
    IF Len(s) = 0 THEN s
    ELSE LowerChar(SubSeq(s, 1, 1)) \o Lower(SubSeq(s, 2, Len(s)))

\* k in s
Contains(s, k) ==
    \E i \in 1..(Len(s) - Len(k) + 1) : SubSeq(s, i, i + Len(k) - 1) = k

\* s.startswith(p)
StartsWith(s, p) == Len(p) <= Len(s) /\ SubSeq(s, 1, Len(p)) = p

\* s.replace(old, '')
RECURSIVE ReplaceWithEmpty(_, _)
ReplaceWithEmpty(s, old) ==
    IF Len(s) < Len(old) \/ Len(old) = 0 THEN s
    ELSE IF SubSeq(s, 1, Len(old)) = old
         THEN ReplaceWithEmpty(SubSeq(s, Len(old) + 1, Len(s)), old)
         ELSE SubSeq(s, 1, 1) \o ReplaceWithEmpty(SubSeq(s, 2, Len(s)), old)

\* s.lstrip('/')
RECURSIVE LStripSlash(_)
LStripSlash(s) ==
    IF Len(s) > 0 /\ SubSeq(s, 1, 1) = "/"
    THEN LStripSlash(SubSeq(s, 2, Len(s)))
    ELSE s

\* the elements of a sequence
Range(s) == {s[i] : i \in 1..Len(s)}

-----------------------------------------------------------------------------
(* The external asset store *)

Outcome == {"ok", "false", "raise"}

\* the directories a path lies in: "/Game/A/B" lies in "/Game" and "/Game/A"
Ancestors(path) ==
    {SubSeq(path, 1, i - 1) : i \in {j \in 2..Len(path) : SubSeq(path, j, j) = "/"}}

\* directoryExists(path)
does_directory_exist(d, path) == path \in d

\* listAssetsUnderPath(path, recursive = true)
get_assets_by_path(reg, path) ==
    SelectSeq(reg, LAMBDA r : StartsWith(r.package_name, path \o "/"))

\* listAssetsByClass(className)
get_assets_by_class(reg, cls) ==
    SelectSeq(reg, LAMBDA r : r.asset_class = cls)

\* one mutating call as it is logged
Call(op, src, dst, o) == [op |-> op, src |-> src, dst |-> dst, res |-> o]

\* makeDirectory(path): the directory (and the ones it lies in) exists afterwards
make_directory(d, path, o) ==
    IF o = "ok" THEN d \cup {path} \cup Ancestors(path) ELSE d

\* renameAsset(source, target): the record is known under the target afterwards
rename_asset(reg, src, dst, o) ==
    IF o = "ok"
    THEN [i \in 1..Len(reg) |->
            IF reg[i].package_name = src
            THEN [reg[i] EXCEPT !.package_name = dst]
            ELSE reg[i]]
    ELSE reg

\* directories a successful rename brings into existence
rename_dirs(d, dst, o) == IF o = "ok" THEN d \cup Ancestors(dst) ELSE d

\* deleteAsset(path): the record is gone afterwards
delete_asset(reg, path, o) ==
    IF o = "ok" THEN SelectSeq(reg, LAMBDA r : r.package_name # path) ELSE reg

\* outcomes of the first n mutating calls of a handler, at most budget of them
\* not "ok"
OutcomeVectors(n, budget) ==
    {[i \in 1..n |->
        IF \E j \in 1..budget : p[j] = i
        THEN kd[CHOOSE j \in 1..budget : p[j] = i]
        ELSE "ok"] :
     p \in [1..budget -> 0..n], kd \in [1..budget -> {"false", "raise"}]}

\* the calls of a log that did not return True
Faulted(log) == Cardinality({i \in 1..Len(log) : log[i].res # "ok"})

-----------------------------------------------------------------------------
(* quick_create_folders.py *)

folders ==
    << "/Game/Core",
       "/Game/Core/Blueprints",
       "/Game/Core/Blueprints/Player",
       "/Game/Core/Blueprints/Gameplay",
       "/Game/Core/Blueprints/Environment",
       "/Game/Core/Materials",
       "/Game/Core/Textures",
       "/Game/UI",
       "/Game/UI/VirtualJoystick",
       "/Game/UI/Widgets",
       "/Game/UI/HUD",
       "/Game/Levels",
       "/Game/Levels/Maps",
       "/Game/Levels/Sublevels",
       "/Game/External",
       "/Game/External/DBV" >>

\* the loop as it would be without the does_directory_exist test: every
\* folder is created again
RECURSIVE quick_folder_loop_no_exist_test(_, _, _)
quick_folder_loop_no_exist_test(i, acc, oc) ==
    IF i > Len(folders) \/ acc.raised THEN acc
    ELSE LET folder == folders[i]
             o == IF acc.k + 1 \in DOMAIN oc THEN oc[acc.k + 1] ELSE "ok"
             made == [acc EXCEPT
                        !.k = @ + 1,
                        !.calls = Append(@, Call("make_directory", folder, "", o)),
                        !.dirs = make_directory(@, folder, o)]
         IN  IF o = "raise"
             THEN [made EXCEPT !.raised = TRUE]
             ELSE IF o = "ok"
                  THEN quick_folder_loop_no_exist_test(i + 1,
                         [made EXCEPT !.created = Append(@, folder)], oc)
                  ELSE quick_folder_loop_no_exist_test(i + 1,
                         [made EXCEPT !.failed = Append(@, folder)], oc)

\* the for loop of create_folder_structure from folder i on; acc.k counts the
\* make_directory calls issued so far and oc[k] is the outcome of the k-th
RECURSIVE quick_folder_loop(_, _, _)
quick_folder_loop(i, acc, oc) ==
    IF i > Len(folders) \/ acc.raised THEN acc
    ELSE LET folder == folders[i] IN
         IF does_directory_exist(acc.dirs, folder)
         THEN quick_folder_loop(i + 1,
                [acc EXCEPT !.existing = Append(@, folder)], oc)
         ELSE LET o == oc[acc.k + 1]
                  made == [acc EXCEPT
                             !.k = @ + 1,
                             !.calls = Append(@, Call("make_directory", folder, "", o)),
                             !.dirs = make_directory(@, folder, o)]
              IN  IF o = "raise"
                  THEN [made EXCEPT !.raised = TRUE]
                  ELSE IF o = "ok"
                       THEN quick_folder_loop(i + 1,
                              [made EXCEPT !.created = Append(@, folder)], oc)
                       ELSE quick_folder_loop(i + 1,
                              [made EXCEPT !.failed = Append(@, folder)], oc)

\* create_folder_structure(): the loop from empty accumulators
quick_create_folder_structure(d, oc) ==
    quick_folder_loop(1,
        [dirs |-> d, calls |-> <<>>, k |-> 0, raised |-> FALSE,
         created |-> <<>>, existing |-> <<>>, failed |-> <<>>], oc)

-----------------------------------------------------------------------------
(* reorganize_unreal_content.py: ContentReorganizer *)

\* self.target_structure, flattened in the order its items() are visited
target_structure ==
    << "Core/Blueprints/Player",
       "Core/Blueprints/Gameplay",
       "Core/Blueprints/Environment",
       "Core/Materials",
       "Core/Textures",
       "UI/VirtualJoystick",
       "UI/Widgets",
       "UI/HUD",
       "Levels/Maps",
       "Levels/Sublevels",
       "External/DBV" >>

\* self.bp_classification, in declaration order
bp_classification ==
    << [category |-> "player",
        keywords |-> <<"player", "character", "pawn", "controller">>],
       [category |-> "gameplay",
        keywords |-> <<"platform", "checkpoint", "exit", "bouncy", "lava">>],
       [category |-> "environment",
        keywords |-> <<"light", "sky", "atmosphere", "fog", "cloud">>] >>

\* the for loop of ContentReorganizer.create_folder_structure from folder i on;
\* exists_printed and failed_printed are console lines, only created_folders
\* is returned
RECURSIVE cr_folder_loop(_, _, _)
cr_folder_loop(i, acc, oc) ==
    IF i > Len(target_structure) \/ acc.raised THEN acc
    ELSE LET game_path == "/Game/" \o target_structure[i] IN
         IF does_directory_exist(acc.dirs, game_path)
         THEN cr_folder_loop(i + 1,
                [acc EXCEPT !.exists_printed = Append(@, game_path)], oc)
         ELSE LET o == oc[acc.k + 1]
                  made == [acc EXCEPT
                             !.k = @ + 1,
                             !.calls = Append(@, Call("make_directory", game_path, "", o)),
                             !.dirs = make_directory(@, game_path, o)]
              IN  IF o = "raise"
                  THEN [made EXCEPT !.raised = TRUE]
                  ELSE IF o = "ok"
                       THEN cr_folder_loop(i + 1,
                              [made EXCEPT !.created_folders = Append(@, game_path)], oc)
                       ELSE cr_folder_loop(i + 1,
                              [made EXCEPT !.failed_printed = Append(@, game_path)], oc)

\* ContentReorganizer.create_folder_structure()
cr_create_folder_structure(d, oc) ==
    cr_folder_loop(1,
        [dirs |-> d, calls |-> <<>>, k |-> 0, raised |-> FALSE,
         created_folders |-> <<>>, exists_printed |-> <<>>,
         failed_printed |-> <<>>], oc)

\* any(keyword in asset_name_lower for keyword in keywords)
any_keyword(keywords, asset_name_lower) ==
    \E j \in 1..Len(keywords) : Contains(asset_name_lower, keywords[j])

\* the for loop of classify_blueprint from rule i on
RECURSIVE classify_from(_, _)
classify_from(i, asset_name_lower) ==
    IF i > Len(bp_classification) THEN "gameplay"
    ELSE IF any_keyword(bp_classification[i].keywords, asset_name_lower)
         THEN bp_classification[i].category
         ELSE classify_from(i + 1, asset_name_lower)

\* classify_blueprint as it would be without lower-casing the name
classify_blueprint_case_sensitive(asset_name) == classify_from(1, asset_name)

\* ContentReorganizer.classify_blueprint(asset_name)
classify_blueprint(asset_name) == classify_from(1, Lower(asset_name))

\* move_blueprints: the two "skip" tests on the full path
bp_skipped(asset_path) ==
    \/ Contains(asset_path, "/DBV/") \/ Contains(asset_path, "/External/")
    \/ \E target \in {"Core/Blueprints", "UI/", "Levels/"} :
            Contains(asset_path, target)

\* move_blueprints: the target path of a blueprint that is not skipped
bp_target_path(asset_name) ==
    LET category == classify_blueprint(asset_name)
        target_folder ==
            IF category = "player" THEN "/Game/Core/Blueprints/Player"
            ELSE IF category = "gameplay" THEN "/Game/Core/Blueprints/Gameplay"
            ELSE IF category = "environment" THEN "/Game/Core/Blueprints/Environment"
            ELSE "/Game/Core/Blueprints/Gameplay"
    IN  target_folder \o "/" \o asset_name

\* an unguarded rename_asset call of ContentReorganizer: the call is logged,
\* the store changes when it returns True, and a raise ends the handler
cr_rename(acc, source, target, oc) ==
    LET o == oc[acc.k + 1] IN
    [acc EXCEPT
        !.k = @ + 1,
        !.calls = Append(@, Call("rename_asset", source, target, o)),
        !.reg = rename_asset(@, source, target, o),
        !.dirs = rename_dirs(@, target, o),
        !.raised = (o = "raise")]

\* the for loop of move_blueprints over the listing all_assets, from record i
RECURSIVE bp_loop(_, _, _, _, _)
bp_loop(all_assets, i, acc, dry, oc) ==
    IF i > Len(all_assets) \/ acc.raised THEN acc
    ELSE LET asset_path == all_assets[i].package_name
             asset_name == all_assets[i].asset_name
         IN  IF bp_skipped(asset_path)
             THEN bp_loop(all_assets, i + 1, acc, dry, oc)
             ELSE LET target_path == bp_target_path(asset_name)
                      planned == [acc EXCEPT !.moves = Append(@,
                                    [source |-> asset_path, target |-> target_path,
                                     category |-> classify_blueprint(asset_name)])]
                  IN  IF dry
                      THEN bp_loop(all_assets, i + 1, planned, dry, oc)
                      ELSE LET renamed == cr_rename(planned, asset_path, target_path, oc)
                           IN  IF renamed.calls[Len(renamed.calls)].res = "false"
                               THEN bp_loop(all_assets, i + 1,
                                      [renamed EXCEPT !.errors = Append(@, asset_path)],
                                      dry, oc)
                               ELSE bp_loop(all_assets, i + 1, renamed, dry, oc)

\* ContentReorganizer.move_blueprints(dry_run)
move_blueprints(reg, d, dry, oc) ==
    bp_loop(get_assets_by_class(reg, "Blueprint"), 1,
        [reg |-> reg, dirs |-> d, calls |-> <<>>, k |-> 0, raised |-> FALSE,
         moves |-> <<>>, errors |-> <<>>], dry, oc)

\* the for loop of move_dbv_to_external over the listing, from record i
RECURSIVE dbv_loop(_, _, _, _)
dbv_loop(all_assets, i, acc, oc) ==
    IF i > Len(all_assets) \/ acc.raised THEN acc
    ELSE LET asset_path == all_assets[i].package_name
             relative_path == LStripSlash(ReplaceWithEmpty(asset_path, "/Game/DBV"))
             new_path == "/Game/External/DBV" \o "/" \o relative_path
             renamed == cr_rename(acc, asset_path, new_path, oc)
         IN  IF renamed.calls[Len(renamed.calls)].res = "false"
             THEN dbv_loop(all_assets, i + 1,
                    [renamed EXCEPT !.failed_printed = Append(@, asset_path)], oc)
             ELSE dbv_loop(all_assets, i + 1, renamed, oc)

\* ContentReorganizer.move_dbv_to_external(dry_run); result is the return value
move_dbv_to_external(reg, d, dry, oc) ==
    LET start == [reg |-> reg, dirs |-> d, calls |-> <<>>, k |-> 0,
                  raised |-> FALSE, failed_printed |-> <<>>, result |-> TRUE]
    IN  IF ~does_directory_exist(d, "/Game/DBV")
        THEN [start EXCEPT !.result = FALSE]
        ELSE IF ~dry
             THEN dbv_loop(get_assets_by_path(reg, "/Game/DBV"), 1, start, oc)
             ELSE start

\* the loop as it would be without the '/Levels/' test: a map that is in place
\* is planned and renamed again
RECURSIVE maps_loop_no_levels_skip(_, _, _, _, _)
maps_loop_no_levels_skip(all_assets, i, acc, dry, oc) ==
    IF i > Len(all_assets) \/ acc.raised THEN acc
    ELSE LET asset_path == all_assets[i].package_name
             asset_name == all_assets[i].asset_name
             target_path == "/Game/Levels/Maps/" \o asset_name
             planned == [acc EXCEPT !.moves = Append(@,
                           [source |-> asset_path, target |-> target_path])]
         IN  IF dry
             THEN maps_loop_no_levels_skip(all_assets, i + 1, planned, dry, oc)
             ELSE LET renamed == cr_rename(planned, asset_path, target_path, oc)
                  IN  IF renamed.calls[Len(renamed.calls)].res = "false"
                      THEN maps_loop_no_levels_skip(all_assets, i + 1,
                             [renamed EXCEPT !.failed_printed = Append(@, asset_path)],
                             dry, oc)
                      ELSE maps_loop_no_levels_skip(all_assets, i + 1, renamed, dry, oc)

\* the for loop of move_maps_to_levels over the listing, from record i
RECURSIVE maps_loop(_, _, _, _, _)
maps_loop(all_assets, i, acc, dry, oc) ==
    IF i > Len(all_assets) \/ acc.raised THEN acc
    ELSE LET asset_path == all_assets[i].package_name
             asset_name == all_assets[i].asset_name
         IN  IF Contains(asset_path, "/Levels/")
             THEN maps_loop(all_assets, i + 1, acc, dry, oc)
             ELSE LET target_path == "/Game/Levels/Maps/" \o asset_name
                      planned == [acc EXCEPT !.moves = Append(@,
                                    [source |-> asset_path, target |-> target_path])]
                  IN  IF dry
                      THEN maps_loop(all_assets, i + 1, planned, dry, oc)
                      ELSE LET renamed == cr_rename(planned, asset_path, target_path, oc)
                           IN  IF renamed.calls[Len(renamed.calls)].res = "false"
                               THEN maps_loop(all_assets, i + 1,
                                      [renamed EXCEPT !.failed_printed = Append(@, asset_path)],
                                      dry, oc)
                               ELSE maps_loop(all_assets, i + 1, renamed, dry, oc)

\* ContentReorganizer.move_maps_to_levels(dry_run)
move_maps_to_levels(reg, d, dry, oc) ==
    maps_loop(get_assets_by_class(reg, "World"), 1,
        [reg |-> reg, dirs |-> d, calls |-> <<>>, k |-> 0, raised |-> FALSE,
         moves |-> <<>>, failed_printed |-> <<>>], dry, oc)

\* analyze_current_structure: the class an asset is counted under
asset_kind(asset_class) ==
    IF Contains(asset_class, "Blueprint") THEN "blueprints"
    ELSE IF Contains(asset_class, "World") \/ Contains(asset_class, "Map") THEN "maps"
    ELSE IF Contains(asset_class, "Material") THEN "materials"
    ELSE IF Contains(asset_class, "Texture") THEN "textures"
    ELSE "other"

\* ContentReorganizer.analyze_current_structure(): asset_locations and the
\* total that is printed
analyze_current_structure(reg) ==
    LET all_assets == get_assets_by_path(reg, "/Game")
        paths_of(kind) ==
            LET sel == SelectSeq(all_assets, LAMBDA r : asset_kind(r.asset_class) = kind)
            IN  [i \in 1..Len(sel) |-> sel[i].package_name]
    IN  [asset_locations |->
            [kind \in {"blueprints", "maps", "materials", "textures"} |-> paths_of(kind)],
         total |-> Len(all_assets)]

-----------------------------------------------------------------------------
(* reorganize_simple.py: SimpleReorganizer *)

\* move_asset as it would be if the dry_run flag were not honoured: the rename
\* is issued in every mode
move_asset_ignores_dry_run(acc, source_path, target_path, dry, oc) ==
    LET o == IF acc.k + 1 \in DOMAIN oc THEN oc[acc.k + 1] ELSE "ok" IN
    [acc EXCEPT
        !.k = @ + 1,
        !.calls = Append(@, Call("rename_asset", source_path, target_path, o)),
        !.reg = rename_asset(@, source_path, target_path, o),
        !.dirs = rename_dirs(@, target_path, o),
        !.success = (o = "ok")]

\* SimpleReorganizer.move_asset(source_path, target_path, dry_run): a dry run
\* returns True without a store call; otherwise one rename_asset call, whose
\* False return or raise both give False
move_asset(acc, source_path, target_path, dry, oc) ==
    IF dry THEN [acc EXCEPT !.success = TRUE]
    ELSE LET o == oc[acc.k + 1] IN
         [acc EXCEPT
            !.k = @ + 1,
            !.calls = Append(@, Call("rename_asset", source_path, target_path, o)),
            !.reg = rename_asset(@, source_path, target_path, o),
            !.dirs = rename_dirs(@, target_path, o),
            !.success = (o = "ok")]

\* the loop as it would be if a failed move ended the batch
RECURSIVE simple_move_loop_stops_at_failure(_, _, _, _, _)
simple_move_loop_stops_at_failure(plan, i, acc, dry, oc) ==
    IF i > Len(plan) THEN acc
    ELSE LET tried == move_asset(acc, plan[i].source, plan[i].target, dry, oc)
         IN  IF tried.success
             THEN simple_move_loop_stops_at_failure(plan, i + 1,
                    [tried EXCEPT !.moved = Append(@, plan[i].source)], dry, oc)
             ELSE [tried EXCEPT !.failed = Append(@, plan[i].source)]

\* the body shared by the four for loops of SimpleReorganizer, from candidate
\* i of plan on: move_asset, then moved.append or failed.append
RECURSIVE simple_move_loop(_, _, _, _, _)
simple_move_loop(plan, i, acc, dry, oc) ==
    IF i > Len(plan) THEN acc
    ELSE LET tried == move_asset(acc, plan[i].source, plan[i].target, dry, oc)
         IN  IF tried.success
             THEN simple_move_loop(plan, i + 1,
                    [tried EXCEPT !.moved = Append(@, plan[i].source)], dry, oc)
             ELSE simple_move_loop(plan, i + 1,
                    [tried EXCEPT !.failed = Append(@, plan[i].source)], dry, oc)

\* moved = [], failed = [] before a loop of SimpleReorganizer
simple_start(reg, d) ==
    [reg |-> reg, dirs |-> d, calls |-> <<>>, k |-> 0, success |-> TRUE,
     moved |-> <<>>, failed |-> <<>>, listed |-> <<>>, source_exists |-> TRUE]

\* move_folder_contents: the target path of one listed asset
folder_target_path(r, source_folder, target_folder) ==
    LET relative_path ==
            LStripSlash(ReplaceWithEmpty(r.package_name, source_folder))
    IN  IF relative_path # ""
        THEN target_folder \o "/" \o relative_path
        ELSE target_folder \o "/" \o r.asset_name

\* move_folder_contents: source and target of every listed asset
folder_plan(all_assets, source_folder, target_folder) ==
    [i \in 1..Len(all_assets) |->
        [source |-> all_assets[i].package_name,
         target |-> folder_target_path(all_assets[i], source_folder, target_folder)]]

\* move_folder_contents as it would be if a missing source folder were
\* reported as a success
move_folder_contents_missing_succeeds(reg, d, source_folder, target_folder, dry, oc) ==
    IF ~does_directory_exist(d, source_folder)
    THEN [simple_start(reg, d) EXCEPT !.source_exists = FALSE]
    ELSE LET all_assets == get_assets_by_path(reg, source_folder)
             done == simple_move_loop(
                        folder_plan(all_assets, source_folder, target_folder), 1,
                        [simple_start(reg, d) EXCEPT !.listed = all_assets], dry, oc)
         IN  [done EXCEPT !.success = (Len(done.failed) = 0)]

\* SimpleReorganizer.move_folder_contents(source_folder, target_folder, dry_run);
\* the return value is (Len(failed) = 0, moved), or (False, []) for a missing
\* source
move_folder_contents(reg, d, source_folder, target_folder, dry, oc) ==
    IF ~does_directory_exist(d, source_folder)
    THEN [simple_start(reg, d) EXCEPT !.success = FALSE, !.source_exists = FALSE]
    ELSE LET all_assets == get_assets_by_path(reg, source_folder)
             done == simple_move_loop(
                        folder_plan(all_assets, source_folder, target_folder), 1,
                        [simple_start(reg, d) EXCEPT !.listed = all_assets], dry, oc)
         IN  [done EXCEPT !.success = (Len(done.failed) = 0)]

\* reorganize_maps: World/Map assets of /Game/Courses go to /Game/Levels/Maps
maps_plan(reg) ==
    LET sel == SelectSeq(get_assets_by_path(reg, "/Game/Courses"),
                 LAMBDA r : Contains(r.asset_class, "World")
                            \/ Contains(r.asset_class, "Map"))
    IN  [i \in 1..Len(sel) |->
            [source |-> sel[i].package_name,
             target |-> "/Game/Levels/Maps/" \o sel[i].asset_name]]

\* reorganize_topdown_blueprints: the target folder chosen from the name
topdown_target_folder(asset_name) ==
    LET asset_name_lower == Lower(asset_name) IN
    IF \/ Contains(asset_name_lower, "character")
       \/ Contains(asset_name_lower, "player")
       \/ Contains(asset_name_lower, "controller")
    THEN "/Game/Core/Blueprints/Player"
    ELSE IF Contains(asset_name_lower, "gamemode") \/ Contains(asset_name_lower, "game")
         THEN "/Game/Core/Blueprints/Gameplay"
         ELSE "/Game/Core/Blueprints/Gameplay"

\* reorganize_topdown_blueprints: Blueprint assets of /Game/TopDown
topdown_plan(reg) ==
    LET sel == SelectSeq(get_assets_by_path(reg, "/Game/TopDown"),
                 LAMBDA r : Contains(r.asset_class, "Blueprint"))
    IN  [i \in 1..Len(sel) |->
            [source |-> sel[i].package_name,
             target |-> topdown_target_folder(sel[i].asset_name)
                        \o "/" \o sel[i].asset_name]]

\* reorganize_input: the target folder chosen from class and name
input_target_folder(r) ==
    IF \/ Contains(r.asset_class, "Widget")
       \/ Contains(Lower(r.asset_name), "widget")
       \/ Contains(Lower(r.asset_name), "ui")
    THEN "/Game/UI/VirtualJoystick"
    ELSE "/Game/Core/Blueprints/Player"

\* reorganize_input: every asset of /Game/Input that is not a map
input_plan(reg) ==
    LET sel == SelectSeq(get_assets_by_path(reg, "/Game/Input"),
                 LAMBDA r : ~(Contains(r.asset_class, "World")
                              \/ Contains(r.asset_class, "Map")))
    IN  [i \in 1..Len(sel) |->
            [source |-> sel[i].package_name,
             target |-> input_target_folder(sel[i]) \o "/" \o sel[i].asset_name]]

\* reorganize_maps, reorganize_topdown_blueprints, reorganize_input: the loop
\* over the plan and the return value (Len(failed) = 0, moved)
simple_reorganize(reg, d, plan, dry, oc) ==
    LET done == simple_move_loop(plan, 1, simple_start(reg, d), dry, oc)
    IN  [done EXCEPT !.success = (Len(done.failed) = 0)]

-----------------------------------------------------------------------------
(* cleanup_after_reorganization.py: ContentCleanup *)

\* fix_all_redirectors: folders_to_check
redirector_folders ==
    << "/Game/DBV", "/Game/Courses", "/Game/TopDown", "/Game/Input",
       "/Game/External/DBV", "/Game/Levels/Maps",
       "/Game/Core/Blueprints/Player", "/Game/Core/Blueprints/Gameplay",
       "/Game/UI/VirtualJoystick" >>

\* find_empty_folders: folders_to_check
old_folders == << "/Game/DBV", "/Game/Courses", "/Game/TopDown", "/Game/Input" >>

\* find_empty_folders: names are printed for at most this many remaining assets
ListedCountLimit == 10

\* find_empty_folders: the slice taken of the remaining assets
ListedSlice == 10

\* verify_reorganization: External/DBV must hold more assets than this
ExpectedDbvAssets == 100

\* the filter as it would be without the class test: every listed record is
\* taken for a redirector
redirectors_of_every_asset(assets) ==
    [i \in 1..Len(assets) |-> assets[i].package_name]

\* fix_redirectors_in_folder: package names of the redirector-classed records
redirectors_of(assets) ==
    LET sel == SelectSeq(assets,
                 LAMBDA a : Contains(a.asset_class, "Redirector")
                            \/ Contains(a.asset_class, "ObjectRedirector"))
    IN  [i \in 1..Len(sel) |-> sel[i].package_name]

\* fix_redirectors_in_folder: the delete loop from redirector i on; a raise of
\* delete_asset is caught and passed over, and the "Deleted" line is printed
\* whenever the call returns
RECURSIVE delete_loop(_, _, _, _)
delete_loop(redirectors, i, acc, oc) ==
    IF i > Len(redirectors) THEN acc
    ELSE LET o == oc[acc.k + 1]
             tried == [acc EXCEPT
                         !.k = @ + 1,
                         !.calls = Append(@, Call("delete_asset", redirectors[i], "", o)),
                         !.reg = delete_asset(@, redirectors[i], o)]
         IN  IF o = "raise"
             THEN delete_loop(redirectors, i + 1, tried, oc)
             ELSE delete_loop(redirectors, i + 1,
                    [tried EXCEPT !.deleted_printed = Append(@, redirectors[i])], oc)

\* ContentCleanup.fix_redirectors_in_folder(folder_path): acc.fixed is the
\* return value; a raise of consolidate_assets leaves the method (acc.raised)
fix_redirectors_in_folder(acc, folder_path, oc) ==
    IF ~does_directory_exist(acc.dirs, folder_path)
    THEN [acc EXCEPT !.fixed = 0, !.found = <<>>, !.exists = FALSE]
    ELSE LET assets == get_assets_by_path(acc.reg, folder_path)
             redirectors == redirectors_of(assets)
             seen == [acc EXCEPT !.found = redirectors, !.exists = TRUE]
         IN  IF Len(redirectors) > 0
             THEN LET o == oc[acc.k + 1]
                      consolidated == [seen EXCEPT
                          !.k = @ + 1,
                          !.calls = Append(@,
                              Call("consolidate_assets", redirectors[1], "", o))]
                  IN  IF o = "raise"
                      THEN [consolidated EXCEPT !.raised = TRUE]
                      ELSE [delete_loop(redirectors, 1, consolidated, oc)
                                EXCEPT !.fixed = Len(redirectors)]
             ELSE [seen EXCEPT !.fixed = 0]

\* the for loop of fix_all_redirectors from folder i on; one entry of sweeps
\* per call of fix_redirectors_in_folder
RECURSIVE redirector_loop(_, _, _)
redirector_loop(i, acc, oc) ==
    IF i > Len(redirector_folders) \/ acc.raised THEN acc
    ELSE LET swept == fix_redirectors_in_folder(acc, redirector_folders[i], oc)
             sweep == [folder |-> redirector_folders[i],
                       exists |-> swept.exists,
                       found |-> swept.found,
                       calls |-> SubSeq(swept.calls, Len(acc.calls) + 1, Len(swept.calls)),
                       raised |-> swept.raised,
                       fixed |-> IF swept.raised THEN -1 ELSE swept.fixed]
             logged == [swept EXCEPT !.sweeps = Append(@, sweep)]
         IN  IF swept.raised THEN logged
             ELSE redirector_loop(i + 1,
                    [logged EXCEPT !.total_fixed = @ + swept.fixed], oc)

\* ContentCleanup.fix_all_redirectors(); total_fixed is returned
fix_all_redirectors(reg, d, oc) ==
    redirector_loop(1,
        [reg |-> reg, dirs |-> d, calls |-> <<>>, k |-> 0, raised |-> FALSE,
         fixed |-> 0, found |-> <<>>, exists |-> TRUE, deleted_printed |-> <<>>,
         sweeps |-> <<>>, total_fixed |-> 0], oc)

\* check_folder_empty as it would be if a missing folder counted as empty
check_folder_empty_missing_is_empty(reg, d, folder_path) ==
    IF ~does_directory_exist(d, folder_path)
    THEN [value |-> "True", listings |-> 0]
    ELSE [value |-> IF Len(get_assets_by_path(reg, folder_path)) = 0
                    THEN "True" ELSE "False",
          listings |-> 1]

\* ContentCleanup.check_folder_empty(folder_path): the value returned ("None",
\* "True" or "False") and the number of listings asked of the registry
check_folder_empty(reg, d, folder_path) ==
    IF ~does_directory_exist(d, folder_path)
    THEN [value |-> "None", listings |-> 0]
    ELSE [value |-> IF Len(get_assets_by_path(reg, folder_path)) = 0
                    THEN "True" ELSE "False",
          listings |-> 1]

\* find_empty_folders: what is reported for one folder
folder_report(reg, d, folder) ==
    LET is_empty == check_folder_empty(reg, d, folder)
        assets == get_assets_by_path(reg, folder)
        asset_count == Len(assets)
        first == SubSeq(assets, 1, IF Len(assets) < ListedSlice
                                   THEN Len(assets) ELSE ListedSlice)
    IN  IF is_empty.value = "False"
        THEN [folder |-> folder, is_empty |-> is_empty.value,
              listings |-> is_empty.listings + 1,
              count_printed |-> <<asset_count>>,
              names_printed |->
                  IF asset_count > 0 /\ asset_count <= ListedCountLimit
                  THEN [i \in 1..Len(first) |-> first[i].asset_name]
                  ELSE <<>>]
        ELSE [folder |-> folder, is_empty |-> is_empty.value,
              listings |-> is_empty.listings,
              count_printed |-> <<>>, names_printed |-> <<>>]

\* ContentCleanup.find_empty_folders(): empty_folders is returned
find_empty_folders(reg, d) ==
    LET report == [i \in 1..Len(old_folders) |-> folder_report(reg, d, old_folders[i])]
        empty == SelectSeq(report, LAMBDA e : e.is_empty = "True")
    IN  [report |-> report,
         empty_folders |-> [i \in 1..Len(empty) |-> empty[i].folder]]

\* ContentCleanup.manual_cleanup_instructions(empty_folders): the folder names
\* that are printed
manual_cleanup_instructions(empty_folders) ==
    [i \in 1..Len(empty_folders) |-> ReplaceWithEmpty(empty_folders[i], "/Game/")]

\* verify_reorganization: the folders checked and counted
verified_folders ==
    << "/Game/External/DBV", "/Game/Levels/Maps", "/Game/Core/Blueprints/Player",
       "/Game/Core/Blueprints/Gameplay", "/Game/UI/VirtualJoystick" >>

\* ContentCleanup.verify_reorganization()
verify_reorganization(reg, d) ==
    LET checks == [i \in 1..Len(verified_folders) |->
                      does_directory_exist(d, verified_folders[i])]
        asset_counts == [i \in 1..Len(verified_folders) |->
                            IF does_directory_exist(d, verified_folders[i])
                            THEN Len(get_assets_by_path(reg, verified_folders[i]))
                            ELSE 0]
    IN  [checks |-> checks, asset_counts |-> asset_counts,
         all_good |-> (\A i \in 1..Len(checks) : checks[i])
                      /\ asset_counts[1] > ExpectedDbvAssets]

-----------------------------------------------------------------------------
(* Initial stores and arguments *)

Asset(package_name, asset_name, asset_class) ==
    [package_name |-> package_name, asset_name |-> asset_name,
     asset_class |-> asset_class]

\* the records an initial registry is drawn from
Pool ==
    << Asset("/Game/DBV/Meshes/Rock", "Rock", "StaticMesh"),
       Asset("/Game/DBV/Arena", "Arena", "World"),
       Asset("/Game/DBV/BP_Fog", "BP_Fog", "Blueprint"),
       Asset("/Game/DBV/OldRock", "OldRock", "ObjectRedirector"),
       Asset("/Game/DBV/Meshes/OldTree", "OldTree", "ObjectRedirector"),
       Asset("/Game/Courses/Course1", "Course1", "World"),
       Asset("/Game/Maps/Course1", "Course1", "World"),
       Asset("/Game/TopDown/Blueprints/PlayerController_BP", "PlayerController_BP", "Blueprint"),
       Asset("/Game/TopDown/PlayerLight", "PlayerLight", "Blueprint"),
       Asset("/Game/Core/Blueprints/Gameplay/Checkpoint_01", "Checkpoint_01", "Blueprint"),
       Asset("/Game/GUI/Sky_Dome", "Sky_Dome", "Blueprint"),
       Asset("/Game/Input/Widget_Something", "Widget_Something", "Blueprint") >>

\* the records of Pool whose index is in S, in Pool order
SubPool(S) ==
    LET idx == SelectSeq([i \in 1..Len(Pool) |-> i], LAMBDA i : i \in S)
    IN  [j \in 1..Len(idx) |-> Pool[idx[j]]]

Registries ==
    {SubPool(S) : S \in {T \in SUBSET (1..Len(Pool)) : Cardinality(T) <= MaxAssets}}

FillDigits == "0123456789"

\* n texture records under /Game/Courses/Textures (n < 100)
Fill(n) ==
    [i \in 1..n |->
        LET name == "T_" \o SubSeq(FillDigits, (i \div 10) + 1, (i \div 10) + 1)
                         \o SubSeq(FillDigits, (i % 10) + 1, (i % 10) + 1)
        IN  Asset("/Game/Courses/Textures/" \o name, name, "Texture2D")]

FillCounts == {0, MaxFill - 1, MaxFill}

\* the directories that exist because assets lie in them
DirsOf(reg) == {"/Game"} \cup UNION {Ancestors(reg[i].package_name) : i \in 1..Len(reg)}

\* directories that exist before the run, besides those of the assets
TreeDirs == Range(folders)
QuickDirChoices ==
    { {}, Range(folders), {"/Game/Core", "/Game/Core/Blueprints"},
      Range(folders) \ {"/Game/UI/HUD", "/Game/Levels/Sublevels"} }
RunDirChoices ==
    { TreeDirs \cup {"/Game/DBV", "/Game/Courses"},
      TreeDirs \ {"/Game/Core/Materials", "/Game/UI/HUD"} }

\* names offered to classify_blueprint
NameTokens ==
    {"Player", "Light", "LAVA", "Sky", "Widget", "_BP", "checkpoint", "Pawn",
     "Exit", "Fog", "BP_"}

RECURSIVE TokenNames(_)
TokenNames(n) ==
    IF n = 0 THEN {""}
    ELSE LET shorter == TokenNames(n - 1)
         IN  shorter \cup {a \o t : a \in shorter, t \in NameTokens}

Names ==
    {"PlayerController_BP", "Checkpoint_01", "Sky_Dome", "Widget_Something",
     "PlayerLight"} \cup TokenNames(MaxWords)

\* the dry_run argument written in the __main__ block of each script
simple_main_dry_run == FALSE
full_main_dry_run == TRUE

\* the first steps as they would be if the full reorganization began with the
\* folders
FirstStep_folders_first(s) ==
    CASE s = "quick" -> "create_folder_structure"
      [] s = "full" -> "create_folder_structure"
      [] s = "simple" -> "reorganize_dbv"
      [] s = "cleanup" -> "fix_all_redirectors"
      [] s = "classify" -> "classify_blueprint"

\* the first statement of each entry point
FirstStep(s) ==
    CASE s = "quick" -> "create_folder_structure"
      [] s = "full" -> "analyze_current_structure"
      [] s = "simple" -> "reorganize_dbv"
      [] s = "cleanup" -> "fix_all_redirectors"
      [] s = "classify" -> "classify_blueprint"

InitCommon ==
    /\ pc = FirstStep(script)
    /\ run_no = 1
    /\ steps = <<>>
    /\ past = <<>>
    /\ faults = 0

InitQuick ==
    /\ script = "quick" /\ dry_run = FALSE
    /\ registry = <<>>
    /\ \E d \in QuickDirChoices : dirs = {"/Game"} \cup d

InitFull ==
    /\ script = "full"
    /\ dry_run \in BOOLEAN
    /\ registry \in Registries
    /\ \E d \in RunDirChoices : dirs = DirsOf(registry) \cup d

InitSimple ==
    /\ script = "simple"
    /\ dry_run \in BOOLEAN
    /\ registry \in Registries
    /\ \E d \in RunDirChoices : dirs = DirsOf(registry) \cup d

InitCleanup ==
    /\ script = "cleanup" /\ dry_run = FALSE
    /\ \E r \in Registries, n \in FillCounts : registry = r \o Fill(n)
    /\ \E d \in RunDirChoices : dirs = DirsOf(registry) \cup d

InitClassify ==
    /\ script = "classify" /\ dry_run = FALSE
    /\ registry = <<>>
    /\ dirs = {"/Game"}

Init ==
    /\ \/ InitQuick
       \/ InitFull
       \/ InitSimple
       \/ InitCleanup
       \/ InitClassify
    /\ InitCommon

-----------------------------------------------------------------------------
(* Steps *)

\* how many of the paths do not exist yet
Missing(paths, d) == Cardinality({i \in 1..Len(paths) : paths[i] \notin d})

\* the full paths ContentReorganizer.create_folder_structure works on
game_paths == [i \in 1..Len(target_structure) |-> "/Game/" \o target_structure[i]]

\* a handler has run: its result is appended and the run goes on, or ends with
\* the exception the handler let through
Finish(rec, nxt) ==
    /\ steps' = Append(steps, rec)
    /\ pc' = IF rec.raised THEN "crashed" ELSE nxt
    /\ faults' = faults + Faulted(rec.calls)

\* quick_create_folders.py: create_folder_structure()
QuickCreateFolderStructure ==
    /\ script = "quick" /\ pc = "create_folder_structure"
    /\ \E oc \in OutcomeVectors(Missing(folders, dirs), MaxFaults - faults) :
         LET r == quick_create_folder_structure(dirs, oc) IN
         /\ dirs' = r.dirs
         /\ Finish([op |-> "create_folder_structure", paths |-> folders,
                    calls |-> r.calls, raised |-> r.raised,
                    created |-> r.created, existing |-> r.existing,
                    failed |-> r.failed,
                    returned |-> IF r.raised THEN <<>>
                                 ELSE [created |-> r.created,
                                       existing |-> r.existing,
                                       failed |-> r.failed]],
                   "done")
    /\ UNCHANGED <<script, dry_run, run_no, registry, past>>

\* execute_full_reorganization, step 1: analyze_current_structure()
FullAnalyze ==
    /\ script = "full" /\ pc = "analyze_current_structure"
    /\ Finish([op |-> "analyze_current_structure", calls |-> <<>>, raised |-> FALSE,
               returned |-> analyze_current_structure(registry)],
              "create_folder_structure")
    /\ UNCHANGED <<script, dry_run, run_no, registry, dirs, past>>

\* execute_full_reorganization, step 2: create_folder_structure()
FullCreateFolderStructure ==
    /\ script = "full" /\ pc = "create_folder_structure"
    /\ \E oc \in OutcomeVectors(Missing(game_paths, dirs), MaxFaults - faults) :
         LET r == cr_create_folder_structure(dirs, oc) IN
         /\ dirs' = r.dirs
         /\ Finish([op |-> "create_folder_structure", paths |-> game_paths,
                    calls |-> r.calls, raised |-> r.raised,
                    created |-> r.created_folders, existing |-> r.exists_printed,
                    failed |-> r.failed_printed,
                    returned |-> IF r.raised THEN <<>>
                                 ELSE [created_folders |-> r.created_folders]],
                   "move_blueprints")
    /\ UNCHANGED <<script, dry_run, run_no, registry, past>>

\* execute_full_reorganization, step 3: move_blueprints(dry_run)
FullMoveBlueprints ==
    /\ script = "full" /\ pc = "move_blueprints"
    /\ \E oc \in OutcomeVectors(
                    IF dry_run THEN 0 ELSE Len(get_assets_by_class(registry, "Blueprint")),
                    MaxFaults - faults) :
         LET r == move_blueprints(registry, dirs, dry_run, oc) IN
         /\ registry' = r.reg
         /\ dirs' = r.dirs
         /\ Finish([op |-> "move_blueprints", dry |-> dry_run,
                    listing |-> get_assets_by_class(registry, "Blueprint"),
                    calls |-> r.calls, raised |-> r.raised,
                    moves |-> r.moves, errors |-> r.errors],
                   "move_dbv_to_external")
    /\ UNCHANGED <<script, dry_run, run_no, past>>

\* execute_full_reorganization, step 4: move_dbv_to_external(dry_run)
FullMoveDbv ==
    /\ script = "full" /\ pc = "move_dbv_to_external"
    /\ \E oc \in OutcomeVectors(
                    IF dry_run THEN 0 ELSE Len(get_assets_by_path(registry, "/Game/DBV")),
                    MaxFaults - faults) :
         LET r == move_dbv_to_external(registry, dirs, dry_run, oc) IN
         /\ registry' = r.reg
         /\ dirs' = r.dirs
         /\ Finish([op |-> "move_dbv_to_external", dry |-> dry_run,
                    listing |-> get_assets_by_path(registry, "/Game/DBV"),
                    source_exists |-> does_directory_exist(dirs, "/Game/DBV"),
                    calls |-> r.calls, raised |-> r.raised,
                    failed |-> r.failed_printed, returned |-> r.result],
                   "move_maps_to_levels")
    /\ UNCHANGED <<script, dry_run, run_no, past>>

\* execute_full_reorganization, step 5: move_maps_to_levels(dry_run); a dry run
\* ends here with the summary
FullMoveMaps ==
    /\ script = "full" /\ pc = "move_maps_to_levels"
    /\ \E oc \in OutcomeVectors(
                    IF dry_run THEN 0 ELSE Len(get_assets_by_class(registry, "World")),
                    MaxFaults - faults) :
         LET r == move_maps_to_levels(registry, dirs, dry_run, oc) IN
         /\ registry' = r.reg
         /\ dirs' = r.dirs
         /\ Finish([op |-> "move_maps_to_levels", dry |-> dry_run,
                    listing |-> get_assets_by_class(registry, "World"),
                    calls |-> r.calls, raised |-> r.raised,
                    moves |-> r.moves, failed |-> r.failed_printed],
                   IF dry_run THEN "done" ELSE "generate_report")
    /\ UNCHANGED <<script, dry_run, run_no, past>>

\* execute_full_reorganization, step 6 (live runs only): generate_report(),
\* then the summary
FullGenerateReport ==
    /\ script = "full" /\ pc = "generate_report"
    /\ Finish([op |-> "generate_report", calls |-> <<>>, raised |-> FALSE,
               returned |-> analyze_current_structure(registry)],
              "done")
    /\ UNCHANGED <<script, dry_run, run_no, registry, dirs, past>>

\* a step of execute_reorganization once the handler's result r is known
SimpleStep(op, r, plan, nxt) ==
    /\ registry' = r.reg
    /\ dirs' = r.dirs
    /\ Finish([op |-> op, dry |-> dry_run, calls |-> r.calls, raised |-> FALSE,
               source_exists |-> r.source_exists, listed |-> r.listed,
               planned |-> [j \in 1..Len(plan) |-> plan[j].source],
               targets |-> [j \in 1..Len(plan) |-> plan[j].target],
               success |-> r.success, moved |-> r.moved, failed |-> r.failed],
              nxt)
    /\ UNCHANGED <<script, dry_run, run_no, past>>

\* execute_reorganization, step 1: reorganize_dbv(dry_run), which is
\* move_folder_contents("/Game/DBV", "/Game/External/DBV", dry_run)
SimpleReorganizeDbv ==
    /\ script = "simple" /\ pc = "reorganize_dbv"
    /\ \E oc \in OutcomeVectors(
                    IF dry_run THEN 0 ELSE Len(get_assets_by_path(registry, "/Game/DBV")),
                    MaxFaults - faults) :
         SimpleStep("move_folder_contents",
                    move_folder_contents(registry, dirs, "/Game/DBV",
                                         "/Game/External/DBV", dry_run, oc),
                    IF does_directory_exist(dirs, "/Game/DBV")
                    THEN folder_plan(get_assets_by_path(registry, "/Game/DBV"),
                                     "/Game/DBV", "/Game/External/DBV")
                    ELSE <<>>,
                    "reorganize_maps")

\* execute_reorganization, step 2: reorganize_maps(dry_run)
SimpleReorganizeMaps ==
    /\ script = "simple" /\ pc = "reorganize_maps"
    /\ \E oc \in OutcomeVectors(IF dry_run THEN 0 ELSE Len(maps_plan(registry)),
                               MaxFaults - faults) :
         SimpleStep("reorganize_maps",
                    simple_reorganize(registry, dirs, maps_plan(registry), dry_run, oc),
                    maps_plan(registry),
                    "reorganize_topdown_blueprints")

\* execute_reorganization, step 3: reorganize_topdown_blueprints(dry_run)
SimpleReorganizeTopdown ==
    /\ script = "simple" /\ pc = "reorganize_topdown_blueprints"
    /\ \E oc \in OutcomeVectors(IF dry_run THEN 0 ELSE Len(topdown_plan(registry)),
                               MaxFaults - faults) :
         SimpleStep("reorganize_topdown_blueprints",
                    simple_reorganize(registry, dirs, topdown_plan(registry), dry_run, oc),
                    topdown_plan(registry),
                    "reorganize_input")

\* execute_reorganization, step 4: reorganize_input(dry_run), then the summary
SimpleReorganizeInput ==
    /\ script = "simple" /\ pc = "reorganize_input"
    /\ \E oc \in OutcomeVectors(IF dry_run THEN 0 ELSE Len(input_plan(registry)),
                               MaxFaults - faults) :
         SimpleStep("reorganize_input",
                    simple_reorganize(registry, dirs, input_plan(registry), dry_run, oc),
                    input_plan(registry),
                    "done")

\* execute_cleanup, step 1: fix_all_redirectors()
CleanupFixAllRedirectors ==
    /\ script = "cleanup" /\ pc = "fix_all_redirectors"
    /\ \E oc \in OutcomeVectors(
                    2 * Len(redirectors_of(registry)), MaxFaults - faults) :
         LET r == fix_all_redirectors(registry, dirs, oc) IN
         /\ registry' = r.reg
         /\ Finish([op |-> "fix_all_redirectors", calls |-> r.calls,
                    raised |-> r.raised, sweeps |-> r.sweeps,
                    deleted_printed |-> r.deleted_printed,
                    returned |-> r.total_fixed],
                   "find_empty_folders")
    /\ UNCHANGED <<script, dry_run, run_no, dirs, past>>

\* execute_cleanup, step 2: find_empty_folders()
CleanupFindEmptyFolders ==
    /\ script = "cleanup" /\ pc = "find_empty_folders"
    /\ LET r == find_empty_folders(registry, dirs) IN
       Finish([op |-> "find_empty_folders", calls |-> <<>>, raised |-> FALSE,
               report |-> r.report, returned |-> r.empty_folders],
              "manual_cleanup_instructions")
    /\ UNCHANGED <<script, dry_run, run_no, registry, dirs, past>>

\* execute_cleanup, step 3: manual_cleanup_instructions(empty_folders)
CleanupManualInstructions ==
    /\ script = "cleanup" /\ pc = "manual_cleanup_instructions"
    /\ Finish([op |-> "manual_cleanup_instructions", calls |-> <<>>, raised |-> FALSE,
               printed |-> manual_cleanup_instructions(steps[Len(steps)].returned)],
              "verify_reorganization")
    /\ UNCHANGED <<script, dry_run, run_no, registry, dirs, past>>

\* execute_cleanup, step 4: verify_reorganization(), then the final steps
CleanupVerify ==
    /\ script = "cleanup" /\ pc = "verify_reorganization"
    /\ Finish([op |-> "verify_reorganization", calls |-> <<>>, raised |-> FALSE,
               returned |-> verify_reorganization(registry, dirs)],
              "done")
    /\ UNCHANGED <<script, dry_run, run_no, registry, dirs, past>>

\* ContentReorganizer.classify_blueprint called on a name
Classify ==
    /\ script = "classify" /\ pc = "classify_blueprint"
    /\ \E asset_name \in Names :
         Finish([op |-> "classify_blueprint", calls |-> <<>>, raised |-> FALSE,
                 asset_name |-> asset_name,
                 returned |-> classify_blueprint(asset_name)],
                "done")
    /\ UNCHANGED <<script, dry_run, run_no, registry, dirs, past>>

\* the same entry point is started again on the store as the last run left it
Rerun ==
    /\ pc \in {"done", "crashed"}
    /\ script # "classify"
    /\ run_no < MaxRuns
    /\ run_no' = run_no + 1
    /\ pc' = FirstStep(script)
    /\ past' = Append(past, steps)
    /\ steps' = <<>>
    /\ UNCHANGED <<script, dry_run, registry, dirs, faults>>

NextQuick == QuickCreateFolderStructure \/ Rerun

NextFull ==
    \/ FullAnalyze
    \/ FullCreateFolderStructure
    \/ FullMoveBlueprints
    \/ FullMoveDbv
    \/ FullMoveMaps
    \/ FullGenerateReport
    \/ Rerun

NextSimple ==
    \/ SimpleReorganizeDbv
    \/ SimpleReorganizeMaps
    \/ SimpleReorganizeTopdown
    \/ SimpleReorganizeInput
    \/ Rerun

NextCleanup ==
    \/ CleanupFixAllRedirectors
    \/ CleanupFindEmptyFolders
    \/ CleanupManualInstructions
    \/ CleanupVerify
    \/ Rerun

Next ==
    \/ QuickCreateFolderStructure
    \/ FullAnalyze
    \/ FullCreateFolderStructure
    \/ FullMoveBlueprints
    \/ FullMoveDbv
    \/ FullMoveMaps
    \/ FullGenerateReport
    \/ SimpleReorganizeDbv
    \/ SimpleReorganizeMaps
    \/ SimpleReorganizeTopdown
    \/ SimpleReorganizeInput
    \/ CleanupFixAllRedirectors
    \/ CleanupFindEmptyFolders
    \/ CleanupManualInstructions
    \/ CleanupVerify
    \/ Classify
    \/ Rerun

\* every entry point, on every initial store
Spec == Init /\ [][Next]_vars

\* one entry point at a time
StartQuick == InitQuick /\ InitCommon
StartFull == InitFull /\ InitCommon
StartSimple == InitSimple /\ InitCommon
StartCleanup == InitCleanup /\ InitCommon
StartClassify == InitClassify /\ InitCommon
SpecQuick == StartQuick /\ [][NextQuick]_vars
SpecFull == StartFull /\ [][NextFull]_vars
SpecSimple == StartSimple /\ [][NextSimple]_vars
SpecCleanup == StartCleanup /\ [][NextCleanup]_vars
SpecClassify == StartClassify /\ [][Classify]_vars

\* the two folder ensurers, the full reorganization on stores of at most one
\* asset
InitFullFewAssets ==
    /\ script = "full"
    /\ dry_run \in BOOLEAN
    /\ \E i \in 0..Len(Pool) : registry = SubPool({i})
    /\ \E d \in RunDirChoices : dirs = DirsOf(registry) \cup d

StartEnsurers == (InitQuick \/ InitFullFewAssets) /\ InitCommon
NextEnsurers ==
    \/ QuickCreateFolderStructure
    \/ FullAnalyze
    \/ FullCreateFolderStructure
    \/ FullMoveBlueprints
    \/ FullMoveDbv
    \/ FullMoveMaps
    \/ FullGenerateReport
    \/ Rerun
SpecEnsurers == StartEnsurers /\ [][NextEnsurers]_vars

\* the two reorganizers and the cleanup on stores of at most one asset
InitSimpleFewAssets ==
    /\ script = "simple"
    /\ dry_run \in BOOLEAN
    /\ \E i \in 0..Len(Pool) : registry = SubPool({i})
    /\ \E d \in RunDirChoices : dirs = DirsOf(registry) \cup d

InitCleanupFewAssets ==
    /\ script = "cleanup" /\ dry_run = FALSE
    /\ \E i \in 0..Len(Pool) : registry = SubPool({i})
    /\ \E d \in RunDirChoices : dirs = DirsOf(registry) \cup d

StartFewAssets ==
    (InitFullFewAssets \/ InitSimpleFewAssets \/ InitCleanupFewAssets) /\ InitCommon
NextFewAssets ==
    \/ FullAnalyze
    \/ FullCreateFolderStructure
    \/ FullMoveBlueprints
    \/ FullMoveDbv
    \/ FullMoveMaps
    \/ FullGenerateReport
    \/ SimpleReorganizeDbv
    \/ SimpleReorganizeMaps
    \/ SimpleReorganizeTopdown
    \/ SimpleReorganizeInput
    \/ CleanupFixAllRedirectors
    \/ CleanupFindEmptyFolders
    \/ CleanupManualInstructions
    \/ CleanupVerify
    \/ Rerun
SpecFewAssets == StartFewAssets /\ [][NextFewAssets]_vars

\* the cleanup on stores without the texture records
InitCleanupSweep ==
    /\ script = "cleanup" /\ dry_run = FALSE
    /\ registry \in Registries
    /\ \E d \in RunDirChoices : dirs = DirsOf(registry) \cup d

StartSweep == InitCleanupSweep /\ InitCommon
SpecSweep == StartSweep /\ [][NextCleanup]_vars

\* live runs of the two reorganizers on a store that fails at most once more
InitFullLive ==
    /\ script = "full" /\ dry_run = FALSE
    /\ registry \in Registries
    /\ \E d \in RunDirChoices : dirs = DirsOf(registry) \cup d

InitSimpleLive ==
    /\ script = "simple" /\ dry_run = FALSE
    /\ registry \in Registries
    /\ \E d \in RunDirChoices : dirs = DirsOf(registry) \cup d

InitAtMostOneFault ==
    /\ pc = FirstStep(script)
    /\ run_no = 1
    /\ steps = <<>>
    /\ past = <<>>
    /\ faults \in {MaxFaults - 1, MaxFaults}

StartReorganizers == (InitFullLive \/ InitSimpleLive) /\ InitAtMostOneFault
NextReorganizers ==
    \/ FullAnalyze
    \/ FullCreateFolderStructure
    \/ FullMoveBlueprints
    \/ FullMoveDbv
    \/ FullMoveMaps
    \/ FullGenerateReport
    \/ SimpleReorganizeDbv
    \/ SimpleReorganizeMaps
    \/ SimpleReorganizeTopdown
    \/ SimpleReorganizeInput
    \/ Rerun
SpecReorganizers == StartReorganizers /\ [][NextReorganizers]_vars

-----------------------------------------------------------------------------
(* What the runs have done *)

RECURSIVE Flatten(_)
Flatten(seqs) == IF Len(seqs) = 0 THEN <<>> ELSE Head(seqs) \o Flatten(Tail(seqs))

\* every handler executed so far, over all runs, oldest first
History == Flatten(past) \o steps

\* the executions of handler op so far
Executions(op) == SelectSeq(History, LAMBDA e : e.op = op)

\* the package names of a listing
PackageNames(listing) == [j \in 1..Len(listing) |-> listing[j].package_name]

\* the positions of a call log whose call ended with outcome o
CallsWith(log, o) == {j \in 1..Len(log) : log[j].res = o}

-----------------------------------------------------------------------------
(* Claims *)

\* C1: in a dry run, move_folder_contents on an existing, non-empty source
\* folder issues no rename call, returns every listed asset as moved and
\* counts none as failed.
C1_DryRunMovesNothing ==
    \A i \in 1..Len(History) :
        LET e == History[i] IN
        (e.op = "move_folder_contents" /\ e.dry /\ e.source_exists /\ Len(e.listed) > 0)
        => /\ e.calls = <<>>
           /\ e.moved = PackageNames(e.listed)
           /\ e.failed = <<>>
           /\ e.success

\* C1 happens: a dry run of move_folder_contents over two listed assets
C1_Witness ==
    \E i \in 1..Len(History) :
        /\ History[i].op = "move_folder_contents"
        /\ History[i].dry /\ History[i].source_exists
        /\ Len(History[i].listed) >= 2
        /\ Len(History[i].moved) >= 2

\* C2: in a live run, when rename_asset returns False for exactly one of the
\* N listed assets and True for the others, move_folder_contents attempts all
\* N in listing order, reports N-1 moved and that one failed, and returns a
\* success flag of False.
C2_OneFailureOfN ==
    \A i \in 1..Len(History) :
        LET e == History[i]
            N == Len(e.listed)
        IN
        (/\ e.op = "move_folder_contents" /\ ~e.dry /\ e.source_exists /\ N >= 1
         /\ Cardinality(CallsWith(e.calls, "false")) = 1
         /\ CallsWith(e.calls, "raise") = {})
        => /\ Len(e.calls) = N
           /\ \A j \in 1..N : /\ e.calls[j].op = "rename_asset"
                              /\ e.calls[j].src = e.listed[j].package_name
           /\ Len(e.moved) = N - 1
           /\ e.failed = <<e.calls[CHOOSE j \in CallsWith(e.calls, "false") : TRUE].src>>
           /\ Range(e.moved) = Range(PackageNames(e.listed)) \ Range(e.failed)
           /\ ~e.success

\* C2 happens: the first of two renames returns False and the second is still
\* attempted and succeeds
C2_Witness ==
    \E i \in 1..Len(History) :
        /\ History[i].op = "move_folder_contents" /\ ~History[i].dry
        /\ Len(History[i].listed) = 2
        /\ Len(History[i].calls) = 2
        /\ History[i].calls[1].res = "false"
        /\ History[i].calls[2].res = "ok"
        /\ Len(History[i].moved) = 1

\* the executions of either folder ensurer so far, oldest first
EnsurerRuns == Executions("create_folder_structure")

\* every make_directory call of an ensurer execution returned True
AllCreated(e) == \A j \in 1..Len(e.calls) : e.calls[j].res = "ok"

\* an ensurer execution that changed nothing and found every path in place
NothingToDo(e) ==
    /\ e.calls = <<>>
    /\ e.created = <<>>
    /\ e.existing = e.paths

\* C3 as claimed: whatever the store did in the first run, the second of two
\* consecutive runs of the folder ensurer calls make_directory zero times,
\* creates nothing and reports every path as already existing.
C3_SecondRunAlwaysIdle ==
    \A i \in 1..(Len(EnsurerRuns) - 1) : NothingToDo(EnsurerRuns[i + 1])

\* C3 amended: when no make_directory call of the first run failed, the second
\* of two consecutive runs of the folder ensurer calls make_directory zero
\* times, creates nothing and reports every path as already existing.
C3_SecondRunIdleAfterCleanFirst ==
    \A i \in 1..(Len(EnsurerRuns) - 1) :
        AllCreated(EnsurerRuns[i]) => NothingToDo(EnsurerRuns[i + 1])

\* C3 happens: a first run that created folders without a failure, then a
\* second run
C3_Witness ==
    \E i \in 1..(Len(EnsurerRuns) - 1) :
        /\ AllCreated(EnsurerRuns[i])
        /\ Len(EnsurerRuns[i].created) >= 2
        /\ NothingToDo(EnsurerRuns[i + 1])

\* the category the rules give a lower-cased name: the first of player,
\* gameplay, environment with a keyword in the name, else gameplay
HasAny(name_lower, keywords) == \E kw \in keywords : Contains(name_lower, kw)
PlayerKeywords == {"player", "character", "pawn", "controller"}
GameplayKeywords == {"platform", "checkpoint", "exit", "bouncy", "lava"}
EnvironmentKeywords == {"light", "sky", "atmosphere", "fog", "cloud"}
ExpectedCategory(name_lower) ==
    IF HasAny(name_lower, PlayerKeywords) THEN "player"
    ELSE IF HasAny(name_lower, GameplayKeywords) THEN "gameplay"
    ELSE IF HasAny(name_lower, EnvironmentKeywords) THEN "environment"
    ELSE "gameplay"

\* the names the specification gives with their categories
ExampleCategory ==
    [n \in {"PlayerController_BP", "Checkpoint_01", "Sky_Dome", "Widget_Something",
            "PlayerLight"} |->
        CASE n = "PlayerController_BP" -> "player"
          [] n = "Checkpoint_01" -> "gameplay"
          [] n = "Sky_Dome" -> "environment"
          [] n = "Widget_Something" -> "gameplay"
          [] n = "PlayerLight" -> "player"]

\* C4: classify_blueprint returns the first category, in the order player,
\* gameplay, environment, with a keyword that is a substring of the lower-cased
\* name, and gameplay when there is none; the five example names get player,
\* gameplay, environment, gameplay and player.
C4_ClassifyFirstMatch ==
    \A i \in 1..Len(History) :
        LET e == History[i] IN
        e.op = "classify_blueprint"
        => /\ e.returned = ExpectedCategory(Lower(e.asset_name))
           /\ e.asset_name \in DOMAIN ExampleCategory
                => e.returned = ExampleCategory[e.asset_name]

\* C4 happens: a name with a player and an environment keyword is classified
C4_Witness ==
    \E i \in 1..Len(History) :
        /\ History[i].op = "classify_blueprint"
        /\ History[i].asset_name = "PlayerLight"
        /\ History[i].returned = "player"

\* C5: in the redirector sweep of an existing folder with k >= 1 redirector
\* records, exactly one consolidate_assets call is made and then delete_asset
\* is attempted for each of the k redirectors in listing order, whatever the
\* earlier deletes did.
C5_SweepConsolidatesThenDeletesAll ==
    \A i \in 1..Len(History) :
        History[i].op = "fix_all_redirectors"
        => \A n \in 1..Len(History[i].sweeps) :
              LET s == History[i].sweeps[n]
                  k == Len(s.found)
              IN  (s.exists /\ k >= 1)
                  => /\ Len(s.calls) = 1 + k
                     /\ s.calls[1].op = "consolidate_assets"
                     /\ \A j \in 1..k : /\ s.calls[j + 1].op = "delete_asset"
                                        /\ s.calls[j + 1].src = s.found[j]

\* the records the store lists under a folder
Under(reg, folder) ==
    {j \in 1..Len(reg) : StartsWith(reg[j].package_name, folder \o "/")}

Min(a, b) == IF a < b THEN a ELSE b

\* the empty-folder report has just been made of the store as it is now
JustReported ==
    /\ pc = "manual_cleanup_instructions"
    /\ Len(steps) > 0
    /\ steps[Len(steps)].op = "find_empty_folders"

\* C6: for a folder the empty-folder report finds non-empty, the number of
\* remaining assets is printed and the names of the first 10 of them (all of
\* them when there are fewer) are listed; 11 records give the count 11 and
\* the first 10 names.
C6_ReportListsFirstTen ==
    JustReported
    => \A n \in 1..Len(steps[Len(steps)].report) :
          LET r == steps[Len(steps)].report[n]
              remaining == get_assets_by_path(registry, r.folder)
          IN  r.is_empty = "False"
              => /\ r.count_printed = <<Len(remaining)>>
                 /\ r.names_printed =
                        [j \in 1..Min(Len(remaining), 10) |-> remaining[j].asset_name]

\* C7: check_folder_empty gives None exactly for a folder that does not exist
\* (without listing it), True exactly for an existing folder with no record
\* under it, False otherwise; find_empty_folders returns exactly the folders
\* that gave True, in order.
C7_ThreeValuedEmptiness ==
    JustReported
    => LET e == steps[Len(steps)]
           emptyOnes == SelectSeq(old_folders,
                          LAMBDA f : f \in dirs /\ Under(registry, f) = {})
       IN  /\ Len(e.report) = Len(old_folders)
           /\ \A n \in 1..Len(e.report) :
                LET r == e.report[n] IN
                /\ r.folder = old_folders[n]
                /\ r.is_empty \in {"None", "True", "False"}
                /\ (r.is_empty = "None") <=> (r.folder \notin dirs)
                /\ (r.is_empty = "None") => (r.listings = 0)
                /\ (r.is_empty = "True")
                      <=> (r.folder \in dirs /\ Under(registry, r.folder) = {})
           /\ e.returned = emptyOnes

\* C7 happens: one report with a missing, an empty and a non-empty folder
C7_Witness ==
    /\ JustReported
    /\ \E a, b, c \in 1..Len(steps[Len(steps)].report) :
          /\ steps[Len(steps)].report[a].is_empty = "None"
          /\ steps[Len(steps)].report[b].is_empty = "True"
          /\ steps[Len(steps)].report[c].is_empty = "False"
    /\ Len(steps[Len(steps)].returned) >= 1

\* the movers of both reorganizers
Movers ==
    {"move_folder_contents", "reorganize_maps", "reorganize_topdown_blueprints",
     "reorganize_input", "move_blueprints", "move_dbv_to_external",
     "move_maps_to_levels"}

\* the package names a live mover execution has to rename, in order
Candidates(e) ==
    CASE e.op = "move_blueprints" ->
            PackageNames(SelectSeq(e.listing, LAMBDA r : ~bp_skipped(r.package_name)))
      [] e.op = "move_dbv_to_external" ->
            IF e.source_exists THEN PackageNames(e.listing) ELSE <<>>
      [] e.op = "move_maps_to_levels" ->
            PackageNames(SelectSeq(e.listing,
                LAMBDA r : ~Contains(r.package_name, "/Levels/")))
      [] OTHER -> e.planned

\* C8: a live mover calls rename_asset exactly once per candidate, and a
\* rename that returns False or raises fails that candidate only: the batch
\* runs to its end, for SimpleReorganizer and for ContentReorganizer.
C8_LiveMoversContinueAfterFailure ==
    \A i \in 1..Len(History) :
        LET e == History[i] IN
        (e.op \in Movers /\ ~e.dry)
        => /\ ~e.raised
           /\ Len(e.calls) = Len(Candidates(e))
           /\ \A j \in 1..Len(e.calls) : e.calls[j].src = Candidates(e)[j]

\* the paths that appear in the value an ensurer returned
ReturnedPaths(returned) == UNION {Range(returned[f]) : f \in DOMAIN returned}

\* C9: when make_directory returns False on some path, the folder ensurer
\* goes on with the remaining paths; at the end every input path has exactly
\* one of the outcomes created, already existing or failed, and the failed
\* paths are in the returned result.
C9_FailuresRecorded ==
    \A i \in 1..Len(EnsurerRuns) :
        LET e == EnsurerRuns[i] IN
        CallsWith(e.calls, "raise") = {}
        => /\ Len(e.created) + Len(e.existing) + Len(e.failed) = Len(e.paths)
           /\ Range(e.created) \cup Range(e.existing) \cup Range(e.failed)
                = Range(e.paths)
           /\ Range(e.failed) \subseteq ReturnedPaths(e.returned)

\* C10: move_blueprints makes no plan entry and no rename call for a listed
\* record whose path contains /DBV/, /External/, Core/Blueprints, UI/ or
\* Levels/, and exactly one plan entry, with a target
\* /Game/Core/Blueprints/{Player|Gameplay|Environment}/<assetName>, for every
\* other listed record.
C10_OnlyUnorganizedPlanned ==
    \A i \in 1..Len(History) :
        LET e == History[i]
            organized(path) ==
                \E sub \in {"/DBV/", "/External/", "Core/Blueprints", "UI/", "Levels/"} :
                    Contains(path, sub)
        IN
        e.op = "move_blueprints"
        => \A n \in 1..Len(e.listing) :
              LET r == e.listing[n]
                  planned == {j \in 1..Len(e.moves) : e.moves[j].source = r.package_name}
                  renamed == {j \in 1..Len(e.calls) : e.calls[j].src = r.package_name}
              IN  IF organized(r.package_name)
                  THEN planned = {} /\ renamed = {}
                  ELSE /\ Cardinality(planned) = 1
                       /\ \A j \in planned :
                            e.moves[j].target \in
                              {"/Game/Core/Blueprints/" \o c \o "/" \o r.asset_name :
                                 c \in {"Player", "Gameplay", "Environment"}}

\* the runs so far, oldest first, the current one last
Runs == Append(past, steps)

\* the handlers a run has executed, in order
OpsOf(run) == [j \in 1..Len(run) |-> run[j].op]

\* s is the beginning of t
IsPrefix(s, t) == Len(s) <= Len(t) /\ s = SubSeq(t, 1, Len(s))

\* the steps of a full reorganization in the order C11 gives them
ClaimedOrder ==
    << "create_folder_structure", "analyze_current_structure", "move_blueprints",
       "move_dbv_to_external", "move_maps_to_levels" >>

\* the steps of a full reorganization, analysis first
AnalysisFirstOrder ==
    << "analyze_current_structure", "create_folder_structure", "move_blueprints",
       "move_dbv_to_external", "move_maps_to_levels" >>

\* the steps of a run, the closing report left out
MainOps(run) == SelectSeq(OpsOf(run), LAMBDA op : op # "generate_report")

\* C11 as claimed: the steps a full reorganization run has executed are, at
\* every moment, the beginning of the sequence folder creation, analysis,
\* blueprint moves, DBV moves, map moves.
C11_FoldersThenAnalysis ==
    script = "full"
    => \A n \in 1..Len(Runs) : IsPrefix(MainOps(Runs[n]), ClaimedOrder)

\* C11 amended: the steps a full reorganization run has executed are, at every
\* moment, the beginning of the sequence analysis, folder creation, blueprint
\* moves, DBV moves, map moves, one step at a time, and a run that has ended
\* without an exception has executed all five.
C11_AnalysisThenFolders ==
    script = "full"
    => /\ \A n \in 1..Len(Runs) : IsPrefix(MainOps(Runs[n]), AnalysisFirstOrder)
       /\ pc = "done" => MainOps(steps) = AnalysisFirstOrder

\* C11 happens: a full reorganization run has ended after its five steps
C11_Witness ==
    /\ script = "full" /\ pc = "done"
    /\ Len(MainOps(steps)) = 5
    /\ steps[1].op = "analyze_current_structure"
    /\ steps[2].op = "create_folder_structure"

\* C12: a dry run of the full reorganization issues no mutating store call at
\* all (no make_directory, no rename_asset, no delete_asset), so the store is
\* left as it was.
C12_DryRunFullMutatesNothing ==
    (script = "full" /\ dry_run)
    => \A i \in 1..Len(History) : History[i].calls = <<>>

\* C13: whatever consolidate_assets and delete_asset do, a cleanup run never
\* ends with an exception: fix_all_redirectors sweeps every folder of its list
\* and the run goes on to the verification and the completion message.
C13_CleanupNeverFatal ==
    script = "cleanup"
    => /\ pc # "crashed"
       /\ \A i \in 1..Len(History) :
             History[i].op = "fix_all_redirectors"
             => /\ ~History[i].raised
                /\ Len(History[i].sweeps) = Len(redirector_folders)

C15_TotalCountsDeleted ==
    \A i \in 1..Len(History) :
        LET e == History[i] IN
        (e.op = "fix_all_redirectors" /\ ~e.raised)
        => e.returned =
              Cardinality({j \in 1..Len(e.calls) :
                              /\ e.calls[j].op = "delete_asset"
                              /\ e.calls[j].res = "ok"})

\* C16: the run the reorganize_simple script starts as shipped (the dry_run
\* argument written in its __main__ block) issues no rename_asset call.
C16_ShippedSimpleRunIsDry ==
    (script = "simple" /\ dry_run = simple_main_dry_run)
    => \A i \in 1..Len(History) :
          \A j \in 1..Len(History[i].calls) :
             History[i].calls[j].op # "rename_asset"

\* step i of run n was followed by handler nxt, or is the latest step and
\* nxt is the handler to come
FollowedBy(n, i, nxt) ==
    /\ i < Len(Runs[n]) => Runs[n][i + 1].op = nxt
    /\ (n = Len(Runs) /\ i = Len(Runs[n])) => pc = nxt

\* C17: on a source folder that does not exist, move_folder_contents lists
\* nothing, renames nothing and returns (False, []), move_dbv_to_external
\* returns False without a rename, and fix_redirectors_in_folder returns 0
\* without a consolidate_assets or delete_asset call; the run goes on with its
\* next step (reorganize_maps, move_maps_to_levels, the next folder of the
\* sweep or find_empty_folders).
C17_MissingSourceSkipped ==
    \A n \in 1..Len(Runs) : \A i \in 1..Len(Runs[n]) :
        LET e == Runs[n][i] IN
        /\ (e.op = "move_folder_contents" /\ ~e.source_exists)
           => /\ e.listed = <<>> /\ e.calls = <<>>
              /\ ~e.success /\ e.moved = <<>>
              /\ FollowedBy(n, i, "reorganize_maps")
        /\ (e.op = "move_dbv_to_external" /\ ~e.source_exists)
           => /\ e.calls = <<>> /\ e.returned = FALSE
              /\ FollowedBy(n, i, "move_maps_to_levels")
        /\ e.op = "fix_all_redirectors"
           => \A m \in 1..Len(e.sweeps) :
                 ~e.sweeps[m].exists
                 => /\ e.sweeps[m].fixed = 0
                    /\ e.sweeps[m].calls = <<>>
                    /\ e.sweeps[m].found = <<>>
                    /\ IF m < Len(redirector_folders)
                       THEN /\ Len(e.sweeps) > m
                            /\ e.sweeps[m + 1].folder = redirector_folders[m + 1]
                       ELSE FollowedBy(n, i, "find_empty_folders")

\* C17 happens: a live run of the simple reorganizer found /Game/DBV missing
\* and went on to move a map of /Game/Courses
C17_Witness ==
    /\ script = "simple" /\ ~dry_run
    /\ Len(steps) >= 2
    /\ steps[1].op = "move_folder_contents" /\ ~steps[1].source_exists
    /\ steps[2].op = "reorganize_maps" /\ Len(steps[2].moved) = 1

\* the same for the full reorganization: /Game/DBV missing, then the map step
C17_SeenInFullRun ==
    /\ script = "full"
    /\ \E i \in 1..(Len(steps) - 1) :
          /\ steps[i].op = "move_dbv_to_external" /\ ~steps[i].source_exists
          /\ steps[i + 1].op = "move_maps_to_levels"

\* the same for the sweep: a folder with a redirector, a missing folder, then
\* an existing folder
C17_SeenInSweep ==
    /\ script = "cleanup"
    /\ \E i \in 1..Len(steps) :
          /\ steps[i].op = "fix_all_redirectors"
          /\ \E a, b \in 1..Len(steps[i].sweeps) :
                /\ a < b
                /\ ~steps[i].sweeps[a].exists
                /\ steps[i].sweeps[b].exists
          /\ \E c \in 1..Len(steps[i].sweeps) : Len(steps[i].sweeps[c].found) >= 1

\* the movers that compute a target path per candidate from its name
NamingMovers ==
    {"reorganize_maps", "reorganize_topdown_blueprints", "reorganize_input",
     "move_blueprints", "move_maps_to_levels"}

\* the target path each candidate of a mover execution is to be renamed to,
\* in listing order
CandidateTargets(e) ==
    CASE e.op = "move_blueprints" ->
            LET sel == SelectSeq(e.listing, LAMBDA r : ~bp_skipped(r.package_name))
            IN  [j \in 1..Len(sel) |-> bp_target_path(sel[j].asset_name)]
      [] e.op = "move_maps_to_levels" ->
            LET sel == SelectSeq(e.listing,
                          LAMBDA r : ~Contains(r.package_name, "/Levels/"))
            IN  [j \in 1..Len(sel) |-> "/Game/Levels/Maps/" \o sel[j].asset_name]
      [] OTHER -> e.targets

\* the candidates a mover execution reported as failed
ReportedFailed(e) ==
    CASE e.op = "move_blueprints" -> Range(e.errors)
      [] OTHER -> Range(e.failed)

\* C18: in a live batch where two candidates compute the same target path,
\* rename_asset is issued for every candidate in listing order with its
\* computed target, the colliding ones included, and a candidate is reported
\* failed exactly when its own rename did not succeed.
C18_CollidingRenamesBothIssued ==
    \A i \in 1..Len(History) :
        LET e == History[i]
            src == Candidates(e)
            tgt == CandidateTargets(e)
        IN
        (/\ e.op \in NamingMovers /\ ~e.dry
         /\ \E a, b \in 1..Len(tgt) : a < b /\ tgt[a] = tgt[b])
        => /\ Len(e.calls) = Len(src)
           /\ \A j \in 1..Len(e.calls) :
                 /\ e.calls[j].op = "rename_asset"
                 /\ e.calls[j].src = src[j]
                 /\ e.calls[j].dst = tgt[j]
                 /\ (src[j] \in ReportedFailed(e)) <=> (e.calls[j].res # "ok")

\* the rename_asset calls of a run, in the order they were issued
RECURSIVE RenamesOf(_)
RenamesOf(run) ==
    IF Len(run) = 0 THEN <<>>
    ELSE SelectSeq(Head(run).calls, LAMBDA c : c.op = "rename_asset")
         \o RenamesOf(Tail(run))

\* every rename_asset call of the run returned True
AllRenamesSucceeded(run) ==
    \A j \in 1..Len(RenamesOf(run)) : RenamesOf(run)[j].res = "ok"

\* a live run of the full reorganization has ended and all its renames
\* succeeded
LiveFullRunDone ==
    /\ script = "full" /\ ~dry_run /\ pc = "done"
    /\ AllRenamesSucceeded(steps)

\* the path under /Game/External/DBV with the same sub-path as a path under
\* /Game/DBV
UnderExternal(path) ==
    "/Game/External/DBV" \o SubSeq(path, Len("/Game/DBV") + 1, Len(path))

\* C19: after a live full reorganization whose renames all succeeded, every
\* asset that was under /Game/DBV is under /Game/External/DBV with the same
\* sub-path, and no asset was renamed twice in the run: no rename starts from
\* the source or the target of an earlier rename.
C19_DbvAssetsStayInExternal ==
    LiveFullRunDone
    => /\ \A i \in 1..Len(steps) :
             steps[i].op = "move_dbv_to_external"
             => \A n \in 1..Len(steps[i].listing) :
                   \E m \in 1..Len(registry) :
                      /\ registry[m].package_name
                            = UnderExternal(steps[i].listing[n].package_name)
                      /\ registry[m].asset_name = steps[i].listing[n].asset_name
       /\ \A a, b \in 1..Len(RenamesOf(steps)) :
             a < b => /\ RenamesOf(steps)[b].src # RenamesOf(steps)[a].dst
                      /\ RenamesOf(steps)[b].src # RenamesOf(steps)[a].src

\* a live run of a reorganizer that ran to its end and whose renames all
\* succeeded
CleanLiveRun(run) ==
    /\ script \in {"full", "simple"} /\ ~dry_run
    /\ Len(run) > 0
    /\ run[Len(run)].op \in {"generate_report", "reorganize_input"}
    /\ AllRenamesSucceeded(run)

\* C20: once a live run of a reorganizer (execute_full_reorganization or
\* execute_reorganization) has run to its end with every rename succeeding,
\* no step of the next live run of the same reorganizer issues a rename_asset
\* call or changes an asset record.
C20_SecondLiveRunRenamesNothing ==
    [][(Len(past) >= 1 /\ CleanLiveRun(past[Len(past)]))
       => /\ registry' = registry
          /\ RenamesOf(steps') = <<>>]_vars

\* C20 happens: a live full reorganization renamed two assets, and a second
\* run on the store it left has ended
C20_Witness ==
    /\ script = "full" /\ pc = "done" /\ Len(past) = 1
    /\ CleanLiveRun(past[1])
    /\ Len(RenamesOf(past[1])) >= 2
    /\ Len(steps) = 6

\* the same for the simple reorganizer
C20_SeenInSimpleRun ==
    /\ script = "simple" /\ pc = "done" /\ Len(past) = 1
    /\ CleanLiveRun(past[1])
    /\ Len(RenamesOf(past[1])) >= 2
    /\ Len(steps) = 4

====
